---- MODULE Spec2Model ----
(***************************************************************************)
(* Sonnet line-ordering puzzle (src/app.js).                               *)
(*                                                                         *)
(* src/app.js holds two variants of the program.  Lines 780-1327 are the   *)
(* hasCheckedAndPassed variant: its handlers carry the source's names.      *)
(* Lines 1-777 are the first variant: its handlers carry the suffix V1.    *)
(*                                                                         *)
(*   Spec       the pointer events of the hasCheckedAndPassed variant      *)
(*   SpecV1     the pointer events of the first variant                    *)
(*   SpecBoards checkOrder on every board, reachable or not                *)
(*   SpecTimer  the pointer events, the frame callback, the resize handler  *)
(*              and the clock of the hasCheckedAndPassed variant            *)
(*   SpecShake  the shake timer with a fair clock and fair frame callbacks  *)
(*   SpecSource initGame on the sequence of any line source                 *)
(*                                                                         *)
(* The frame callback, the resize handler and the clock write only the     *)
(* shake timer's variables (shakeVars), which no pointer handler reads.    *)
(*                                                                         *)
(* A line of text is a positive integer, null is 0 (both are told apart by *)
(* truthiness in the source, and no line is the empty string because       *)
(* getRandomSonnet filters blank lines out).  A null currentSonnet is the  *)
(* empty sequence (getRandomSonnet never returns an empty array).          *)
(***************************************************************************)
EXTENDS Integers, Sequences, FiniteSets, TLC

\* ---------------------------------------------------------------- bounds
\* The program has 14 slots and 14-line sonnets; the model scales both down.
NumSlots == 3
\* checkOrderCount is unbounded in the program; checks stop at this count.
MaxChecks == 2
\* Wall-clock time advances in steps of TickMs, at most MaxTicks times.
MaxTicks == 2
TickMs == 250

\* ------------------------------------------------------ program constants
duration == 500
frequency == 20

Null == 0
Blank == 0
NullSonnet == << >>
\* getSlotAt's "no slot" and the initial hoveredSlotIndex
NoSlot == -1
\* a null draggedSlotIndex (0 is a slot index)
NullIdx == -2
SlotIdx == 0 .. (NumSlots - 1)

\* Pointer positions, up to what getSlotAt and isPointInButton tell apart:
\* inside slot i, inside one of the two buttons, or anywhere else.  The
\* buttons end at y = 55 and the slots start at y >= 90, so no point is in
\* both a slot and a button.
CheckOrderLoc == NumSlots
NewSonnetLoc == NumSlots + 1
OutsideLoc == NumSlots + 2
Locs == SlotIdx \cup {CheckOrderLoc, NewSonnetLoc, OutsideLoc}
\* The positions the pointer is moved to during a drag.
HoverLocs == {0, OutsideLoc}

\* The frame-request handles requestAnimationFrame can return.
FrameIds == {1, 2, 3}

\* ------------------------------------------------------------ sonnet data
\* data.js: raw sonnets as sequences of trimmed lines, Blank for a line that
\* is empty after trimming.
SonnetA == [i \in 1 .. NumSlots |-> i]
\* the same lines in another order
SonnetB == [i \in 1 .. NumSlots |-> NumSlots + 1 - i]
\* a sonnet with a blank line and a fifteenth line
RawB == <<Blank>> \o SonnetB \o <<NumSlots + 1>>
\* a text with too few lines
RawShort == [i \in 1 .. (NumSlots - 1) |-> i]
SonnetData == {SonnetA, RawB, RawShort}

VARIABLES
    sonnets,             \* the imported sonnets array (never assigned)
    pc,                  \* "load" before the module-level initGame(), then "run"
    currentSonnet,
    slots,
    draggedLine,
    draggedSlotIndex,
    isDragging,
    hoveredSlotIndex,
    shakingSlots,
    shakeAnimationFrame,
    shakeStartTime,
    incorrectSlots,
    checkedSlots,
    checkOrderCount,
    hasCheckedAndPassed,
    pendingFrames,       \* frame requests the browser has not yet run or cancelled
    now,                 \* Date.now()
    ev                   \* history: op, what the last event that changed the puzzle
                         \* or the drag session did; last, the most recent of
                         \* checkOrder, content-changing drop and initGame

puzzleVars == <<currentSonnet, slots, incorrectSlots, checkedSlots,
                checkOrderCount, hasCheckedAndPassed>>
dragVars == <<draggedLine, draggedSlotIndex, isDragging, hoveredSlotIndex>>
shakeVars == <<shakingSlots, shakeAnimationFrame, shakeStartTime, pendingFrames>>
vars == <<sonnets, pc, currentSonnet, slots, draggedLine, draggedSlotIndex,
          isDragging, hoveredSlotIndex, shakingSlots, shakeAnimationFrame,
          shakeStartTime, incorrectSlots, checkedSlots, checkOrderCount,
          hasCheckedAndPassed, pendingFrames, now, ev>>

\* --------------------------------------------------------- pure functions
NonBlank(raw) == SelectSeq(raw, LAMBDA l : l # Blank)

validSonnets(data) == {s \in data : Len(NonBlank(s)) >= NumSlots}

getRandomSonnetAny(data) ==
    {SubSeq(NonBlank(s), 1, IF Len(NonBlank(s)) < NumSlots THEN Len(NonBlank(s))
                            ELSE NumSlots) : s \in data}

\* The values getRandomSonnet can return: {NullSonnet} when no sonnet is
\* valid, else the first NumSlots non-blank lines of any valid sonnet.
getRandomSonnet(data) ==
    IF validSonnets(data) = {}
    THEN {NullSonnet}
    ELSE {SubSeq(NonBlank(s), 1, NumSlots) : s \in validSonnets(data)}

\* The draws of one Fisher-Yates pass over n elements: js[i] is
\* Math.floor(Math.random() * (i + 1)), for i = n-1 down to 1.
Draws(n) == {js \in [1 .. (n - 1) -> 0 .. (n - 1)] : \A i \in 1 .. (n - 1) : js[i] <= i}

\* a is a sequence holding a 0-based array: index i is a[i + 1].
SwapAtLossy(a, i, j) == [a EXCEPT ![i + 1] = a[j + 1]]
\* [a[i], a[j]] = [a[j], a[i]]
SwapAt(a, i, j) == [a EXCEPT ![i + 1] = a[j + 1], ![j + 1] = a[i + 1]]

RECURSIVE FisherYates(_, _, _)
FisherYates(a, i, js) ==
    IF i <= 0 THEN a ELSE FisherYates(SwapAt(a, i, js[i]), i - 1, js)

shuffleArray(arr, js) == FisherYates(arr, Len(arr) - 1, js)

argAfterShuffleInPlace(arr, js) == FisherYates(arr, Len(arr) - 1, js)
\* The array passed to shuffleArray, after the call: the loop works on the
\* copy of line 896.
argAfterShuffle(arr, js) == arr

\* slots after the forEach of initGame: shuffledLines[i] goes to slotIndices[i].
RECURSIVE PlaceLines(_, _, _, _)
PlaceLines(s, lines, idx, i) ==
    IF i > Len(lines) THEN s
    ELSE PlaceLines([s EXCEPT ![idx[i]] = lines[i]], lines, idx, i + 1)

EmptySlots == [i \in SlotIdx |-> Null]
IndexArray == [i \in 1 .. NumSlots |-> i - 1]

getSlotAtFirst(loc) == IF loc \in SlotIdx THEN 0 ELSE NoSlot
getSlotAt(loc) == IF loc \in SlotIdx THEN loc ELSE NoSlot

\* The key of the button of getButtons() that isPointInButton finds at loc.
buttonAt(loc) ==
    IF loc = CheckOrderLoc THEN "checkOrder"
    ELSE IF loc = NewSonnetLoc THEN "newSonnet"
    ELSE "none"

hasAtLeastOneLinePlaced(s) == \E i \in SlotIdx : s[i] # Null

isOrderCorrectLoose(sonnet, s) ==
    /\ Len(sonnet) # 0
    /\ \A i \in 0 .. (Len(sonnet) - 1) : s[i] # Null => s[i] = sonnet[i + 1]
    /\ \A i \in Len(sonnet) .. (NumSlots - 1) : s[i] = Null

isOrderCorrect(sonnet, s) ==
    /\ Len(sonnet) # 0
    /\ \A i \in 0 .. (Len(sonnet) - 1) : s[i] = sonnet[i + 1]
    /\ \A i \in Len(sonnet) .. (NumSlots - 1) : s[i] = Null

isButtonDisabledNever(key) == FALSE
isButtonDisabled(key) ==
    IF key = "checkOrder" THEN ~hasAtLeastOneLinePlaced(slots)
    ELSE IF key = "newSonnet"
         THEN ~isOrderCorrect(currentSonnet, slots) \/ ~hasCheckedAndPassed
         ELSE FALSE

clearSlotStateFirst(set, a, b) == set \ {a}
clearSlotStateSource(set, a, b) == set \ {b}
\* clearSlotState(a, b) applied to one of the two annotation sets.
clearSlotState(set, a, b) == set \ {a, b}

\* ----------------------------------------------------------- shake timer
ShakeState == [shaking |-> shakingSlots, start |-> shakeStartTime,
               frame |-> shakeAnimationFrame, pending |-> pendingFrames]

getShakeOffsetKeepsSet(sh, t) ==
    IF sh.start = Null THEN sh
    ELSE IF t - sh.start >= duration
         THEN [shaking |-> sh.shaking, start |-> Null, frame |-> Null,
               pending |-> IF sh.frame # Null THEN sh.pending \ {sh.frame}
                           ELSE sh.pending]
         ELSE sh

getShakeOffsetLate(sh, t) ==
    IF sh.start = Null THEN sh
    ELSE IF t - sh.start > duration
         THEN [shaking |-> {}, start |-> Null, frame |-> Null,
               pending |-> IF sh.frame # Null THEN sh.pending \ {sh.frame}
                           ELSE sh.pending]
         ELSE sh

\* The state getShakeOffset leaves behind when called at time t.
getShakeOffset(sh, t) ==
    IF sh.start = Null THEN sh
    ELSE IF t - sh.start >= duration
         THEN [shaking |-> {}, start |-> Null, frame |-> Null,
               pending |-> IF sh.frame # Null THEN sh.pending \ {sh.frame}
                           ELSE sh.pending]
         ELSE sh

\* A returned offset is the pair (wave, amplitude) that stands for
\* sin(wave * pi / 1000) * amplitude / duration; the literal 0 of lines 1261
\* and 1271 is ZeroOffset.
ZeroOffset == [wave |-> 0, amplitude |-> 0]

\* The value getShakeOffset returns when called at time t (lines 1261-1276).
shakeOffsetValue(sh, t) ==
    IF sh.start = Null THEN ZeroOffset
    ELSE LET elapsed == t - sh.start
         IN IF elapsed >= duration THEN ZeroOffset
            ELSE [wave |-> elapsed * frequency,
                  amplitude |-> 10 * (duration - elapsed)]

\* shakingSlots.has(i) ? getShakeOffset() : 0 (lines 982 and 1089): the
\* offset of slot i at time t and the timer state the query leaves behind.
offsetFor(sh, i, t) ==
    IF i \in sh.shaking
    THEN [state |-> getShakeOffset(sh, t), offset |-> shakeOffsetValue(sh, t)]
    ELSE [state |-> sh, offset |-> ZeroOffset]

\* render() draws and, for the first shaking slot it meets, calls
\* getShakeOffset; once that has cleared shakingSlots no later slot calls it.
render(sh, t) == IF sh.shaking # {} THEN getShakeOffset(sh, t) ELSE sh

\* requestAnimationFrame(animateShake): a handle that names no pending request
\* and differs from the handle being overwritten.
requestAnimationFrame(sh) ==
    LET id == CHOOSE f \in FrameIds : f \notin sh.pending /\ f # sh.frame
    IN [sh EXCEPT !.frame = id, !.pending = sh.pending \cup {id}]

SetShake(sh) ==
    /\ shakingSlots' = sh.shaking
    /\ shakeStartTime' = sh.start
    /\ shakeAnimationFrame' = sh.frame
    /\ pendingFrames' = sh.pending

\* ------------------------------------------------------------------ Init
\* The module-level declarations (lines 799-815), before initGame() runs.
Init ==
    /\ sonnets \in {SonnetData, {RawShort}}
    /\ pc = "load"
    /\ currentSonnet = NullSonnet
    /\ slots = EmptySlots
    /\ draggedLine = Null
    /\ draggedSlotIndex = NullIdx
    /\ isDragging = FALSE
    /\ hoveredSlotIndex = NoSlot
    /\ shakingSlots = {}
    /\ shakeAnimationFrame = Null
    /\ shakeStartTime = Null
    /\ incorrectSlots = {}
    /\ checkedSlots = {}
    /\ checkOrderCount = 0
    /\ hasCheckedAndPassed = FALSE
    /\ pendingFrames = {}
    /\ now = 1
    /\ ev = [op |-> "none", last |-> "none"]

\* ------------------------------------------------------------- operations
\* The history after an event that did op.
Did(op) ==
    [op |-> op,
     last |-> IF op \in {"swap", "move"} THEN "drop"
              ELSE IF op \in {"initGame", "checkPassed", "checkFailed"} THEN op
              ELSE ev.last]

\* initGame() from the assignment of line 905 on, for the value sonnet that
\* getRandomSonnet returned.
initGameWith(sonnet) ==
    IF sonnet = NullSonnet
    THEN /\ currentSonnet' = sonnet
         /\ UNCHANGED <<slots, incorrectSlots, checkedSlots, checkOrderCount,
                        hasCheckedAndPassed, shakeVars>>
         /\ ev' = Did("initGameFailed")
    ELSE \E js1 \in Draws(NumSlots), js2 \in Draws(NumSlots) :
             LET shuffledLines == shuffleArray(sonnet, js1)
                 slotIndices == shuffleArray(IndexArray, js2)
             IN /\ currentSonnet' = argAfterShuffle(sonnet, js1)
                /\ slots' = PlaceLines(EmptySlots, shuffledLines, slotIndices, 1)
                /\ incorrectSlots' = {}
                /\ checkedSlots' = {}
                /\ checkOrderCount' = 0
                /\ hasCheckedAndPassed' = FALSE
                /\ SetShake(render(ShakeState, now))
                /\ ev' = Did("initGame")

\* initGame(), lines 904-919.
initGame == \E sonnet \in getRandomSonnet(sonnets) : initGameWith(sonnet)

\* The slots a check shakes (slotsToShake, lines 1294-1303).
slotsToShake(sonnet, s) ==
    {i \in SlotIdx :
        LET content == s[i]
            expected == IF i < Len(sonnet) THEN sonnet[i + 1] ELSE Null
        IN content = Null \/ content # expected}

wrongLinesAndEmpty(sonnet, s) == slotsToShake(sonnet, s)
wrongLinesUnchecked(sonnet, s) ==
    {i \in slotsToShake(sonnet, s) : s[i] # Null /\ i \notin checkedSlots}
\* The slots a check colours red (incorrectSlots, line 1301).
wrongLines(sonnet, s) == {i \in slotsToShake(sonnet, s) : s[i] # Null}

checkPassesAlways(toShake) == TRUE
\* The branch of line 1305 that sets hasCheckedAndPassed.
checkPasses(toShake) == ~(Cardinality(toShake) > 0)

countCheckNot(n) == n
\* checkOrderCount++ (line 1290).
countCheck(n) == n + 1

\* checkOrder(), lines 1288-1318.
checkOrder ==
    IF currentSonnet = NullSonnet
    THEN /\ UNCHANGED <<puzzleVars, shakeVars>>
         /\ UNCHANGED ev
    ELSE LET toShake == slotsToShake(currentSonnet, slots)
         IN /\ checkOrderCount' = countCheck(checkOrderCount)
            /\ checkedSlots' = checkedSlots \cup {i \in SlotIdx : slots[i] # Null}
            /\ UNCHANGED <<currentSonnet, slots>>
            /\ IF toShake # {}
               THEN /\ incorrectSlots' = wrongLines(currentSonnet, slots)
                    /\ hasCheckedAndPassed' = checkPasses(toShake)
                    /\ LET started == [ShakeState EXCEPT !.shaking = toShake,
                                                         !.start = now]
                       IN IF started.frame = Null
                          THEN SetShake(requestAnimationFrame(render(started, now)))
                          ELSE SetShake(started)
                    /\ ev' = Did("checkFailed")
               ELSE /\ incorrectSlots' = {}
                    /\ hasCheckedAndPassed' = checkPasses(toShake)
                    /\ SetShake(render(ShakeState, now))
                    /\ ev' = Did("checkPassed")

\* handleButtonClick(buttonKey), lines 1252-1258.
handleButtonClick(buttonKey) ==
    IF buttonKey = "checkOrder" THEN checkOrder
    ELSE IF buttonKey = "newSonnet" THEN initGame
    ELSE /\ UNCHANGED <<puzzleVars, shakeVars>>
         /\ UNCHANGED ev

\* The module-level initGame() of line 1327.
Load ==
    /\ pc = "load"
    /\ pc' = "run"
    /\ initGame
    /\ UNCHANGED <<sonnets, dragVars, now>>

\* handlePointerDown(e), lines 1180-1203, for a mousedown or touchstart at loc.
\* The slot test and the button loop run one after the other; no point is in
\* a slot and in a button, so at most one of them acts.
handlePointerDown(loc) ==
    /\ pc = "run"
    /\ buttonAt(loc) = "checkOrder" => checkOrderCount < MaxChecks
    /\ UNCHANGED <<sonnets, pc, now>>
    /\ LET slotIndex == getSlotAt(loc)
           key == buttonAt(loc)
       IN IF slotIndex # NoSlot /\ slots[slotIndex] # Null
          THEN /\ draggedLine' = slots[slotIndex]
               /\ draggedSlotIndex' = slotIndex
               /\ isDragging' = TRUE
               /\ UNCHANGED <<hoveredSlotIndex, puzzleVars, shakeVars>>
               /\ ev' = Did("pickUp")
          ELSE /\ UNCHANGED dragVars
               /\ IF key # "none" /\ ~isButtonDisabled(key)
                  THEN handleButtonClick(key)
                  ELSE /\ UNCHANGED <<puzzleVars, shakeVars>>
                       /\ UNCHANGED ev

handlePointerMoveUnguarded(loc) ==
    /\ pc = "run"
    /\ UNCHANGED <<sonnets, pc, now, puzzleVars, draggedLine, draggedSlotIndex, isDragging>>
    /\ UNCHANGED ev
    /\ hoveredSlotIndex' = getSlotAt(loc)
    /\ SetShake(render(ShakeState, now))

\* handlePointerMove(e), lines 1208-1217.
handlePointerMove(loc) ==
    /\ pc = "run"
    /\ UNCHANGED <<sonnets, pc, now, puzzleVars, draggedLine, draggedSlotIndex, isDragging>>
    /\ UNCHANGED ev
    /\ IF ~isDragging
       THEN UNCHANGED <<hoveredSlotIndex, shakeVars>>
       ELSE /\ hoveredSlotIndex' = getSlotAt(loc)
            /\ SetShake(render(ShakeState, now))

dropLineMoves(s, slotIndex, from, line) ==
    [[s EXCEPT ![from] = Null] EXCEPT ![slotIndex] = line]

\* The slots after a drop of the dragged line on slotIndex (lines 1229-1234).
dropLine(s, slotIndex, from, line) ==
    IF s[slotIndex] # Null
    THEN [s EXCEPT ![slotIndex] = line, ![from] = s[slotIndex]]
    ELSE [[s EXCEPT ![from] = Null] EXCEPT ![slotIndex] = line]

dropOnSlotKeepsPass(slotIndex) ==
    /\ slots' = dropLine(slots, slotIndex, draggedSlotIndex, draggedLine)
    /\ incorrectSlots' = clearSlotState(incorrectSlots, slotIndex, draggedSlotIndex)
    /\ checkedSlots' = clearSlotState(checkedSlots, slotIndex, draggedSlotIndex)
    /\ UNCHANGED hasCheckedAndPassed

\* The drop on another slot, lines 1229-1236.
dropOnSlot(slotIndex) ==
    /\ slots' = dropLine(slots, slotIndex, draggedSlotIndex, draggedLine)
    /\ incorrectSlots' = clearSlotState(incorrectSlots, slotIndex, draggedSlotIndex)
    /\ checkedSlots' = clearSlotState(checkedSlots, slotIndex, draggedSlotIndex)
    /\ hasCheckedAndPassed' = FALSE

dragInProgressAlways == TRUE
\* The test of line 1223.
dragInProgress == isDragging /\ draggedLine # Null

endSessionKeepsHover ==
    /\ isDragging' = FALSE
    /\ UNCHANGED hoveredSlotIndex
    /\ draggedLine' = Null
    /\ draggedSlotIndex' = NullIdx

\* The end of the drag session, lines 1240-1243.
endSession ==
    /\ isDragging' = FALSE
    /\ hoveredSlotIndex' = NoSlot
    /\ draggedLine' = Null
    /\ draggedSlotIndex' = NullIdx

\* handlePointerUp(e), lines 1222-1246.
handlePointerUp(loc) ==
    /\ pc = "run"
    /\ UNCHANGED <<sonnets, pc, now, currentSonnet, checkOrderCount>>
    /\ IF dragInProgress
       THEN LET slotIndex == getSlotAt(loc)
            IN /\ IF slotIndex # NoSlot /\ draggedSlotIndex # NullIdx
                     /\ draggedSlotIndex # slotIndex
                  THEN /\ dropOnSlot(slotIndex)
                       /\ ev' = Did(IF slots[slotIndex] # Null THEN "swap" ELSE "move")
                  ELSE /\ UNCHANGED <<slots, incorrectSlots, checkedSlots,
                                      hasCheckedAndPassed>>
                       /\ ev' = Did("revert")
               /\ endSession
               /\ SetShake(render(ShakeState, now))
       ELSE /\ UNCHANGED <<slots, incorrectSlots, checkedSlots, hasCheckedAndPassed,
                           dragVars, shakeVars>>
            /\ UNCHANGED ev

animateShakeNoRender ==
    /\ pc = "run"
    /\ \E id \in pendingFrames :
        LET fired == [ShakeState EXCEPT !.pending = pendingFrames \ {id}]
        IN IF fired.shaking = {}
           THEN SetShake([fired EXCEPT !.frame = Null])
           ELSE SetShake(requestAnimationFrame(fired))
    /\ UNCHANGED ev
    /\ UNCHANGED <<sonnets, pc, now, puzzleVars, dragVars>>

\* animateShake(), lines 1279-1286: the browser runs a pending frame request.
animateShake ==
    /\ pc = "run"
    /\ \E id \in pendingFrames :
        LET fired == [ShakeState EXCEPT !.pending = pendingFrames \ {id}]
        IN IF fired.shaking = {}
           THEN SetShake([fired EXCEPT !.frame = Null])
           ELSE SetShake(requestAnimationFrame(render(fired, now)))
    /\ UNCHANGED ev
    /\ UNCHANGED <<sonnets, pc, now, puzzleVars, dragVars>>

\* handleResize(), lines 1320-1323.
handleResize ==
    /\ pc = "run"
    /\ SetShake(render(ShakeState, now))
    /\ UNCHANGED ev
    /\ UNCHANGED <<sonnets, pc, now, puzzleVars, dragVars>>

\* Wall-clock time passes.
Tick ==
    /\ pc = "run"
    /\ now < 1 + MaxTicks * TickMs
    /\ now' = now + TickMs
    /\ UNCHANGED ev
    /\ UNCHANGED <<sonnets, pc, puzzleVars, dragVars, shakeVars>>

\* ------------------------------------------------ first variant (1-777)
\* The first variant has no hasCheckedAndPassed; the variable stays FALSE.

\* initGame(), lines 185-217.
initGameV1 ==
    \E sonnet \in getRandomSonnet(sonnets) :
        /\ currentSonnet' = sonnet
        /\ UNCHANGED hasCheckedAndPassed
        /\ IF sonnet = NullSonnet
           THEN /\ UNCHANGED <<slots, incorrectSlots, checkedSlots, checkOrderCount,
                               shakeVars>>
                /\ ev' = Did("initGameFailed")
           ELSE \E js1 \in Draws(NumSlots), js2 \in Draws(NumSlots) :
                    LET shuffledLines == FisherYates(sonnet, Len(sonnet) - 1, js1)
                        slotIndices == FisherYates(IndexArray, NumSlots - 1, js2)
                    IN /\ slots' = PlaceLines(EmptySlots, shuffledLines, slotIndices, 1)
                       /\ incorrectSlots' = {}
                       /\ checkedSlots' = {}
                       /\ checkOrderCount' = 0
                       /\ SetShake(render(ShakeState, now))
                       /\ ev' = Did("initGame")

\* The slots checkOrder shakes and colours red, lines 724-744.
slotsToShakeV1(sonnet, s) ==
    {i \in SlotIdx :
        LET slotContent == s[i]
            expectedLine == IF i < Len(sonnet) THEN sonnet[i + 1] ELSE Null
        IN \/ slotContent = Null
           \/ slotContent # Null /\ expectedLine # Null /\ slotContent # expectedLine
           \/ slotContent # Null /\ expectedLine = Null}

\* checkOrder(), lines 707-759.
checkOrderV1 ==
    IF currentSonnet = NullSonnet
    THEN UNCHANGED <<puzzleVars, shakeVars, ev>>
    ELSE LET toShake == slotsToShakeV1(currentSonnet, slots)
         IN /\ checkOrderCount' = checkOrderCount + 1
            /\ checkedSlots' = checkedSlots \cup {i \in SlotIdx : slots[i] # Null}
            /\ UNCHANGED <<currentSonnet, slots, hasCheckedAndPassed>>
            /\ IF toShake # {}
               THEN /\ incorrectSlots' = {i \in toShake : slots[i] # Null}
                    /\ LET started == [ShakeState EXCEPT !.shaking = toShake,
                                                         !.start = now]
                       IN IF started.frame = Null
                          THEN SetShake(requestAnimationFrame(render(started, now)))
                          ELSE SetShake(started)
                    /\ ev' = Did("checkFailed")
               ELSE /\ incorrectSlots' = {}
                    /\ SetShake(render(ShakeState, now))
                    /\ ev' = Did("checkPassed")

\* The isDisabled of handlePointerDown, lines 558-563.
isDisabledV1(key) ==
    IF key = "checkOrder" THEN ~hasAtLeastOneLinePlaced(slots)
    ELSE IF key = "newSonnet" THEN ~isOrderCorrect(currentSonnet, slots)
    ELSE FALSE

\* handlePointerDown(e), lines 524-570.
handlePointerDownV1(loc) ==
    /\ pc = "run"
    /\ buttonAt(loc) = "checkOrder" => checkOrderCount < MaxChecks
    /\ UNCHANGED <<sonnets, pc, now>>
    /\ LET slotIndex == getSlotAt(loc)
           key == buttonAt(loc)
       IN IF slotIndex # NoSlot /\ slots[slotIndex] # Null
          THEN /\ draggedLine' = slots[slotIndex]
               /\ draggedSlotIndex' = slotIndex
               /\ isDragging' = TRUE
               /\ UNCHANGED <<hoveredSlotIndex, puzzleVars, shakeVars>>
               /\ ev' = Did("pickUp")
          ELSE /\ UNCHANGED dragVars
               /\ IF key # "none" /\ ~isDisabledV1(key)
                  THEN IF key = "checkOrder" THEN checkOrderV1 ELSE initGameV1
                  ELSE UNCHANGED <<puzzleVars, shakeVars, ev>>

\* handlePointerMove(e), lines 575-602.
handlePointerMoveV1(loc) ==
    /\ pc = "run"
    /\ UNCHANGED <<sonnets, pc, now, puzzleVars, draggedLine, draggedSlotIndex, isDragging>>
    /\ UNCHANGED ev
    /\ IF ~isDragging
       THEN UNCHANGED <<hoveredSlotIndex, shakeVars>>
       ELSE /\ hoveredSlotIndex' = getSlotAt(loc)
            /\ SetShake(render(ShakeState, now))

\* handlePointerUp(e), lines 607-660.
handlePointerUpV1(loc) ==
    /\ pc = "run"
    /\ UNCHANGED <<sonnets, pc, now, currentSonnet, checkOrderCount, hasCheckedAndPassed>>
    /\ IF isDragging /\ draggedLine # Null
       THEN LET slotIndex == getSlotAt(loc)
            IN /\ IF slotIndex # NoSlot
                  THEN IF draggedSlotIndex # NullIdx /\ draggedSlotIndex # slotIndex
                       THEN /\ slots' = dropLine(slots, slotIndex, draggedSlotIndex,
                                                 draggedLine)
                            /\ incorrectSlots' = incorrectSlots \ {slotIndex, draggedSlotIndex}
                            /\ checkedSlots' = checkedSlots \ {slotIndex, draggedSlotIndex}
                            /\ ev' = Did(IF slots[slotIndex] # Null THEN "swap" ELSE "move")
                       ELSE /\ slots' = [slots EXCEPT ![slotIndex] = draggedLine]
                            /\ incorrectSlots' = incorrectSlots \ {slotIndex}
                            /\ checkedSlots' = checkedSlots \ {slotIndex}
                            /\ ev' = Did("revert")
                  ELSE IF draggedSlotIndex # NullIdx
                       THEN /\ slots' = [slots EXCEPT ![draggedSlotIndex] = Null]
                            /\ incorrectSlots' = incorrectSlots \ {draggedSlotIndex}
                            /\ checkedSlots' = checkedSlots \ {draggedSlotIndex}
                            /\ ev' = Did("revert")
                       ELSE /\ UNCHANGED <<slots, incorrectSlots, checkedSlots>>
                            /\ ev' = Did("revert")
               /\ isDragging' = FALSE
               /\ hoveredSlotIndex' = NoSlot
               /\ draggedLine' = Null
               /\ draggedSlotIndex' = NullIdx
               /\ SetShake(render(ShakeState, now))
       ELSE UNCHANGED <<slots, incorrectSlots, checkedSlots, dragVars, shakeVars, ev>>

LoadV1 ==
    /\ pc = "load"
    /\ pc' = "run"
    /\ initGameV1
    /\ UNCHANGED <<sonnets, dragVars, now>>

\* ---------------------------------------------------------- specifications
Next ==
    \/ Load
    \/ \E loc \in Locs : handlePointerDown(loc)
    \/ \E loc \in HoverLocs : handlePointerMove(loc)
    \/ \E loc \in Locs : handlePointerUp(loc)

Spec == Init /\ [][Next]_vars

NextV1 ==
    \/ LoadV1
    \/ \E loc \in Locs : handlePointerDownV1(loc)
    \/ \E loc \in HoverLocs : handlePointerMoveV1(loc)
    \/ \E loc \in Locs : handlePointerUpV1(loc)

SpecV1 == Init /\ [][NextV1]_vars

\* checkOrder on every value of what it reads: every board over the lines of
\* the sonnets, with empty slots, under either sonnet or none and either value
\* of hasCheckedAndPassed.  The only event is a press of Check Order.
Boards == [SlotIdx -> (0 .. NumSlots)]

InitBoards ==
    /\ sonnets = SonnetData
    /\ pc = "run"
    /\ currentSonnet \in getRandomSonnet(SonnetData) \cup {NullSonnet}
    /\ slots \in Boards
    /\ draggedLine = Null
    /\ draggedSlotIndex = NullIdx
    /\ isDragging = FALSE
    /\ hoveredSlotIndex = NoSlot
    /\ shakingSlots = {}
    /\ shakeAnimationFrame = Null
    /\ shakeStartTime = Null
    /\ incorrectSlots = {}
    /\ checkedSlots = {}
    /\ checkOrderCount = 0
    /\ hasCheckedAndPassed \in BOOLEAN
    /\ pendingFrames = {}
    /\ now = 1
    /\ ev = [op |-> "none", last |-> "none"]

NextBoards == handlePointerDown(CheckOrderLoc)

SpecBoards == InitBoards /\ [][NextBoards]_vars

\* The pointer events together with the frame callback, the resize handler and
\* the clock, on one sonnet or none.  Presses and releases are at the first
\* two slots, the buttons and outside.
TimerLocs == {0, 1, CheckOrderLoc, NewSonnetLoc, OutsideLoc}

InitTimer ==
    /\ sonnets \in {{SonnetA}, {RawShort}}
    /\ pc = "load"
    /\ currentSonnet = NullSonnet
    /\ slots = EmptySlots
    /\ draggedLine = Null
    /\ draggedSlotIndex = NullIdx
    /\ isDragging = FALSE
    /\ hoveredSlotIndex = NoSlot
    /\ shakingSlots = {}
    /\ shakeAnimationFrame = Null
    /\ shakeStartTime = Null
    /\ incorrectSlots = {}
    /\ checkedSlots = {}
    /\ checkOrderCount = 0
    /\ hasCheckedAndPassed = FALSE
    /\ pendingFrames = {}
    /\ now = 1
    /\ ev = [op |-> "none", last |-> "none"]

NextTimer ==
    \/ Load
    \/ \E loc \in TimerLocs : handlePointerDown(loc)
    \/ \E loc \in HoverLocs : handlePointerMove(loc)
    \/ \E loc \in TimerLocs : handlePointerUp(loc)
    \/ animateShake
    \/ handleResize
    \/ Tick

SpecTimer == InitTimer /\ [][NextTimer]_vars

\* The shake timer under the scheduling of the browser: the clock goes on (up
\* to the bound of the model) and a requested frame is run.  The pointer
\* picks up at slot 0, drops on slot 1 and presses the buttons.
ShakeDownLocs == {0, CheckOrderLoc, NewSonnetLoc}
ShakeUpLocs == {1}

NextShake ==
    \/ Load
    \/ \E loc \in ShakeDownLocs : handlePointerDown(loc)
    \/ \E loc \in ShakeUpLocs : handlePointerUp(loc)
    \/ animateShake
    \/ handleResize
    \/ Tick

SpecShake == InitTimer /\ [][NextShake]_vars /\ WF_vars(Tick) /\ WF_vars(animateShake)

\* initGame on whatever sequence a line source hands to it: the sequences
\* getRandomSonnet returns, and one with a line too few.  The events are the
\* presses and releases of SpecTimer.
SuppliedSequences == {SonnetA, SonnetB, RawShort}

LoadFrom ==
    /\ pc = "load"
    /\ pc' = "run"
    /\ \E sonnet \in SuppliedSequences : initGameWith(sonnet)
    /\ UNCHANGED <<sonnets, dragVars, now>>

NextSource ==
    \/ LoadFrom
    \/ \E loc \in TimerLocs : handlePointerDown(loc)
    \/ \E loc \in TimerLocs : handlePointerUp(loc)

InitSource == Init /\ sonnets = SonnetData

SpecSource == InitSource /\ [][NextSource]_vars

\* ------------------------------------------------------------------ claims
AllLines == 1 .. (NumSlots + 1)
Canonical(i) == currentSonnet[i + 1]
EmptyIdx(s) == {i \in SlotIdx : s[i] = Null}
Occurrences(s, l) == Cardinality({i \in SlotIdx : s[i] = l})
\* s and t hold the same multiset of lines.
SameLines(s, t) == \A l \in AllLines : Occurrences(s, l) = Occurrences(t, l)
\* a pointer-up at loc, in either variant
DropAt(loc) == handlePointerUp(loc) \/ handlePointerUpV1(loc)
\* a press of New Sonnet, in either variant
PressNewSonnet == handlePointerDown(NewSonnetLoc) \/ handlePointerDownV1(NewSonnetLoc)
\* The PassFlag of a variant that keeps no flag: the most recent of checkOrder,
\* content-changing drop and newPuzzle was a check that passed.
PassedLast == ev.last = "checkPassed"
Checked == ev.op \in {"checkPassed", "checkFailed"}

\* C1: no pointer-up changes the multiset of lines in the slots, wherever the
\* line is dropped.
C1_DropsConserveLines ==
    [][\A loc \in Locs : DropAt(loc) => SameLines(slots, slots')]_vars

\* C1, hasCheckedAndPassed variant: a pointer-up whose session carries the
\* line of its source slot changes no multiset.
C1_FreshDropsConserveLines ==
    [][\A loc \in Locs :
          handlePointerUp(loc) /\ (isDragging => draggedLine = slots[draggedSlotIndex])
              => SameLines(slots, slots')]_vars

\* C2: a press of New Sonnet changes the state only where the board is
\* complete and the most recent check passed with no edit since.
C2_NewSonnetNeedsPass ==
    [][PressNewSonnet /\ ~(isOrderCorrect(currentSonnet, slots) /\ PassedLast)
          => UNCHANGED vars]_vars

\* C2, hasCheckedAndPassed variant: the press changes the state only where
\* isOrderCorrect and hasCheckedAndPassed hold.
C2_GateV2 ==
    [][handlePointerDown(NewSonnetLoc)
          /\ ~(isOrderCorrect(currentSonnet, slots) /\ hasCheckedAndPassed /\ PassedLast)
          => UNCHANGED vars]_vars

\* C3: hasCheckedAndPassed is true only if the most recent of checkOrder,
\* content-changing drop and newPuzzle was a check that found every slot
\* correct.
C3_PassOnlyAfterPassingCheck ==
    hasCheckedAndPassed => PassedLast /\ isOrderCorrect(currentSonnet, slots)

C3_Witness == hasCheckedAndPassed /\ PassedLast /\ ev.op = "pickUp"

\* C4: a drop that changes the content of slot i leaves i neither checked nor
\* incorrect, and hasCheckedAndPassed false.
C4_DropClearsAnnotations ==
    [][slots' # slots /\ (\E loc \in Locs : handlePointerUp(loc)) =>
          \A i \in SlotIdx : slots'[i] # slots[i] =>
              /\ i \notin checkedSlots'
              /\ i \notin incorrectSlots'
              /\ ~hasCheckedAndPassed']_vars

\* a swap after a check: the two slots of the swap have lost their marks
C4_Witness ==
    /\ ev.op = "swap"
    /\ checkOrderCount > 0
    /\ Cardinality(checkedSlots) = NumSlots - 2
    /\ ~hasCheckedAndPassed

\* C5: a drop on another slot k swaps the lines of k and the source s when k
\* is occupied, moves the line of s to k when k is empty, and changes no
\* other slot, nor the canonical sequence, nor the attempt counter.
C5_DropSwapsOrMoves ==
    [][\A k \in SlotIdx :
          handlePointerUp(k) /\ isDragging /\ draggedSlotIndex # k =>
              LET s == draggedSlotIndex
              IN /\ slots'[k] = slots[s]
                 /\ slots'[s] = slots[k]
                 /\ \A i \in SlotIdx \ {s, k} : slots'[i] = slots[i]
                 /\ UNCHANGED <<currentSonnet, checkOrderCount>>]_vars

\* C6: a pointer-up outside every slot, or on the source slot, leaves the
\* slots, the annotations, hasCheckedAndPassed and the attempt counter as
\* they were.
C6_RevertIsNoOp ==
    [][\A loc \in Locs :
          DropAt(loc) /\ isDragging
              /\ (getSlotAt(loc) = NoSlot \/ getSlotAt(loc) = draggedSlotIndex)
              => UNCHANGED puzzleVars]_vars

\* C6, hasCheckedAndPassed variant alone.
C6_RevertIsNoOpV2 ==
    [][\A loc \in Locs :
          handlePointerUp(loc) /\ isDragging
              /\ (getSlotAt(loc) = NoSlot \/ getSlotAt(loc) = draggedSlotIndex)
              => UNCHANGED puzzleVars]_vars

\* C7: after a successful initGame every slot is occupied and the slots hold
\* each line as often as the canonical sequence does.
C7_NewPuzzleIsPermutation ==
    ev.op = "initGame" =>
        /\ EmptyIdx(slots) = {}
        /\ \A l \in AllLines :
               Occurrences(slots, l) = Cardinality({i \in SlotIdx : Canonical(i) = l})

C7_Witness ==
    /\ ev.op = "initGame"
    /\ \E i \in SlotIdx : slots[i] # Canonical(i)
    /\ \E i \in SlotIdx : slots[i] = Canonical(i)

\* C8: after a check, slot i is checked and not incorrect iff it holds its
\* canonical line, incorrect iff it holds another line, neither when empty;
\* and the slots handed to the shake are the empty and the incorrect ones.
C8_CheckAnnotates ==
    Checked =>
        /\ \A i \in SlotIdx :
              /\ (i \in checkedSlots /\ i \notin incorrectSlots) <=> slots[i] = Canonical(i)
              /\ i \in incorrectSlots <=> (slots[i] # Null /\ slots[i] # Canonical(i))
              /\ slots[i] = Null => (i \notin checkedSlots /\ i \notin incorrectSlots)
        /\ (IF ev.op = "checkFailed" THEN shakingSlots ELSE {})
               = EmptyIdx(slots) \cup incorrectSlots

\* a check of a board with an empty, a correct and a misplaced line
C8_Witness ==
    /\ Checked
    /\ EmptyIdx(slots) # {}
    /\ incorrectSlots # {}
    /\ checkedSlots \ incorrectSlots # {}

\* C9: after a check, hasCheckedAndPassed is true iff every slot holds its
\* canonical line, iff the check flagged no slot.
C9_PassIffAllCorrect ==
    Checked =>
        /\ hasCheckedAndPassed <=> \A i \in SlotIdx : slots[i] = Canonical(i)
        /\ hasCheckedAndPassed <=> ev.op = "checkPassed"
        /\ ev.op = "checkFailed" <=> slotsToShake(currentSonnet, slots) # {}

C9_Witness == ev.op = "checkFailed" /\ ~hasCheckedAndPassed /\ checkOrderCount = 2

\* C10: on every board isOrderCorrect holds iff a check of that board flags
\* no slot.
C10_CompleteIffNothingFlagged ==
    /\ isOrderCorrect(currentSonnet, slots) <=> slotsToShake(currentSonnet, slots) = {}
    /\ Checked => (isOrderCorrect(currentSonnet, slots) <=> ev.op = "checkPassed")

\* a board whose occupied slots are all right, with an empty slot
C10_Witness ==
    /\ ev.op = "checkFailed"
    /\ EmptyIdx(slots) # {}
    /\ incorrectSlots = {}

\* a press of Check Order that reaches the body of checkOrder
CheckRuns ==
    /\ ~isButtonDisabled("checkOrder")
    /\ currentSonnet # NullSonnet
    /\ handlePointerDown(CheckOrderLoc)
\* the step ran a successful initGame, at load or by a press of New Sonnet:
\* it wrote "initGame" to the history (a step that finds it there finds the
\* counter at 0)
NewPuzzleRuns == ev'.op = "initGame" /\ (ev.op = "initGame" => checkOrderCount = 0)

\* C11: checkOrderCount grows by exactly 1 on each check that runs (no step
\* that leaves it elsewhere is such a check), is 0 after each successful
\* initGame, changes in no other step than these two, and is 0 as long as
\* no check followed the last initGame.
C11_CounterCountsChecks ==
    [][/\ checkOrderCount' # checkOrderCount + 1 => ~CheckRuns
       /\ ev'.op = "initGame" => checkOrderCount' = 0
       /\ checkOrderCount' # checkOrderCount =>
             \/ CheckRuns /\ checkOrderCount' = checkOrderCount + 1
             \/ NewPuzzleRuns /\ checkOrderCount' = 0
       /\ ev'.last \in {"none", "initGame"} => checkOrderCount' = 0]_vars

\* the second check of a puzzle, after the shake of the first has run out
C11_Witness ==
    /\ checkOrderCount = 2
    /\ ev.op = "checkFailed"
    /\ now > duration
    /\ shakeStartTime = now

\* the most recent of checkOrder, content-changing drop and initGame was a check
CheckedLast == ev.last \in {"checkPassed", "checkFailed"}

\* C12: a check that follows a check with no drop between them leaves the
\* slots, the annotations and hasCheckedAndPassed as the first left them, has
\* the same outcome and flags the same slots, and adds 1 to checkOrderCount.
C12_RecheckChangesNothing ==
    [][CheckRuns /\ CheckedLast =>
          /\ slots' = slots
          /\ incorrectSlots' = incorrectSlots
          /\ checkedSlots' = checkedSlots
          /\ hasCheckedAndPassed' = hasCheckedAndPassed
          /\ ev'.last = ev.last
          /\ slotsToShake(currentSonnet', slots') = slotsToShake(currentSonnet, slots)
          /\ ev'.op = "checkFailed" => shakingSlots' = slotsToShake(currentSonnet, slots)
          /\ checkOrderCount' = checkOrderCount + 1]_vars

\* two checks in a row of a board with an empty and a misplaced slot
C12_Witness ==
    /\ checkOrderCount = 2
    /\ ev.op = "checkFailed"
    /\ incorrectSlots # {}
    /\ EmptyIdx(slots) # {}
    /\ checkedSlots \ incorrectSlots # {}

\* the variables of the program (all but the history)
progVars == <<sonnets, pc, puzzleVars, dragVars, shakeVars, now>>

\* C13: a press of Check Order while no slot is occupied, or while no sonnet
\* is loaded, changes nothing: not the counter, the annotations,
\* hasCheckedAndPassed or the shake timer.
C13_EmptyCheckIsNoOp ==
    [][handlePointerDown(CheckOrderLoc)
          /\ (~hasAtLeastOneLinePlaced(slots) \/ currentSonnet = NullSonnet)
          => UNCHANGED progVars]_vars

\* an empty board under a loaded sonnet, on which the press is a step that
\* changes nothing
C13_Witness ==
    /\ pc = "run"
    /\ ~hasAtLeastOneLinePlaced(slots)
    /\ currentSonnet # NullSonnet
    /\ ENABLED (handlePointerDown(CheckOrderLoc) /\ UNCHANGED vars)

\* a board with lines under no sonnet
C13_WitnessNoSonnet ==
    /\ pc = "run"
    /\ hasAtLeastOneLinePlaced(slots)
    /\ currentSonnet = NullSonnet
    /\ ENABLED (handlePointerDown(CheckOrderLoc) /\ UNCHANGED vars)

\* C14: a pointer-down while a drag session is active leaves the session's
\* draggedSlotIndex and draggedLine as they are.
C14_FirstGestureWins ==
    [][\A loc \in Locs : handlePointerDown(loc) /\ isDragging
          => UNCHANGED <<draggedLine, draggedSlotIndex>>]_vars

\* C14, first part: the session is one triple of variables, set together.
C14_OneSession ==
    /\ isDragging <=> draggedLine # Null
    /\ isDragging <=> draggedSlotIndex # NullIdx

\* C15: checkOrder runs only while no drag session is active.
C15_CheckOnlyBetweenGestures ==
    [][CheckRuns => ~isDragging]_vars

\* C16: a pointer-down on slot i leaves the slots, the annotations,
\* hasCheckedAndPassed and the counter unchanged; on a filled slot it starts
\* the session with source i carrying slots[i], on an empty slot it changes
\* nothing.
C16_PickUpStartsSession ==
    [][\A i \in SlotIdx : handlePointerDown(i) =>
          /\ UNCHANGED puzzleVars
          /\ IF slots[i] # Null
             THEN /\ isDragging'
                  /\ draggedSlotIndex' = i
                  /\ draggedLine' = slots[i]
                  /\ slots'[i] = draggedLine'
             ELSE UNCHANGED progVars]_vars

\* a pick-up on a checked, passed board
C16_Witness ==
    /\ ev.op = "pickUp"
    /\ isDragging
    /\ draggedLine = slots[draggedSlotIndex]
    /\ draggedSlotIndex # 0
    /\ hasCheckedAndPassed
    /\ checkedSlots = SlotIdx

\* a press on an empty slot, which changes nothing
C16_WitnessEmptySlot ==
    /\ pc = "run"
    /\ slots[0] = Null
    /\ ENABLED (handlePointerDown(0) /\ UNCHANGED vars)

\* C17: every pointer-up during a session ends it (no step from a session
\* that leaves a session, a dragged line, a source slot or a hovered slot is
\* a pointer-up), whatever the drop does; a session
\* begins only by a pointer-down on a filled slot and ends only by a
\* pointer-up.
C17_DropEndsSession ==
    [][/\ isDragging /\ ~(/\ ~isDragging'
                            /\ draggedLine' = Null
                            /\ draggedSlotIndex' = NullIdx
                            /\ hoveredSlotIndex' = NoSlot) =>
             \A loc \in Locs : ~handlePointerUp(loc)
       /\ ~isDragging /\ isDragging' =>
             \E i \in SlotIdx : slots[i] # Null /\ handlePointerDown(i)
       /\ isDragging /\ ~isDragging' =>
             \E loc \in Locs : handlePointerUp(loc)
       /\ ~isDragging' =>
             draggedLine' = Null /\ draggedSlotIndex' = NullIdx
                /\ hoveredSlotIndex' = NoSlot]_vars

\* sessions ended by a swap and by a release outside, after a check
C17_Witness ==
    /\ ev.op \in {"swap", "revert"}
    /\ ~isDragging
    /\ hoveredSlotIndex = NoSlot
    /\ checkOrderCount > 0

\* C18: a pointer-up while no session is active changes nothing: not the
\* slots, the annotations, hasCheckedAndPassed, the counter, the drag state
\* or the shake timer.
C18_DropWithoutSessionIsNoOp ==
    [][\A loc \in Locs : handlePointerUp(loc) /\ ~isDragging
          => UNCHANGED progVars]_vars

\* no session, and a shake that has run out but that no redraw has cleared
\* yet: a pointer-up on slot 0 is a step that changes nothing
C18_Witness ==
    /\ pc = "run"
    /\ ~isDragging
    /\ shakingSlots # {}
    /\ now - shakeStartTime >= duration
    /\ ENABLED (handlePointerUp(0) /\ UNCHANGED vars)

\* C19: a pointer-move leaves the slots, the sonnet, checkedSlots,
\* incorrectSlots, hasCheckedAndPassed, the counter and the session's line
\* and source unchanged; during a session it sets hoveredSlotIndex and
\* redraws, and with no session it changes nothing at all.
C19_HoverKeepsPuzzle ==
    [][\A loc \in Locs : handlePointerMove(loc) =>
          /\ UNCHANGED <<sonnets, pc, now, puzzleVars>>
          /\ UNCHANGED <<isDragging, draggedLine, draggedSlotIndex>>
          /\ IF isDragging
             THEN /\ hoveredSlotIndex' = getSlotAt(loc)
                  /\ ShakeState' = render(ShakeState, now)
             ELSE UNCHANGED progVars]_vars

\* a hover over slot 0 during a session on a checked board
C19_Witness ==
    /\ ev.op = "pickUp"
    /\ isDragging
    /\ hoveredSlotIndex = 0
    /\ draggedSlotIndex # 0
    /\ checkedSlots # {}

\* C20: right after every successful initGame the counter is 0,
\* hasCheckedAndPassed is false and no slot is checked, incorrect or shaking.
C20_NewPuzzleIsClean ==
    ev.op = "initGame" =>
        /\ checkOrderCount = 0
        /\ ~hasCheckedAndPassed
        /\ checkedSlots = {}
        /\ incorrectSlots = {}
        /\ shakingSlots = {}

\* C20 without the shake: what initGame itself resets.
C20_NewPuzzleResets ==
    ev.op = "initGame" =>
        /\ checkOrderCount = 0
        /\ ~hasCheckedAndPassed
        /\ checkedSlots = {}
        /\ incorrectSlots = {}

\* C21: a drop that changes the content of slot i leaves i with no annotation
\* at all: neither checked, nor incorrect, nor shaking.
C21_DropStopsShake ==
    [][slots' # slots /\ (\E loc \in Locs : handlePointerUp(loc)) =>
          \A i \in SlotIdx : slots'[i] # slots[i] =>
              /\ i \notin checkedSlots'
              /\ i \notin incorrectSlots'
              /\ i \notin shakingSlots']_vars

\* C21 for a shake that has run out: the redraw of the drop ends it.
C21_DropEndsExpiredShake ==
    [][slots' # slots /\ (\E loc \in Locs : handlePointerUp(loc))
          /\ shakeStartTime # Null /\ now - shakeStartTime >= duration
          => shakingSlots' = {}]_vars

\* C22: after every check that runs, the shake timer holds what that check
\* flagged: the flagged slots and the time of the check when it flagged some,
\* no slot when it flagged none.
C22_TimerReflectsLastCheck ==
    [][CheckRuns =>
          LET flagged == slotsToShake(currentSonnet, slots)
          IN IF flagged # {}
             THEN shakingSlots' = flagged /\ shakeStartTime' = now
             ELSE shakingSlots' = {}]_vars

\* C22 for the failing check alone: it replaces the set and the start time.
C22_FailingCheckReplaces ==
    [][CheckRuns /\ slotsToShake(currentSonnet, slots) # {} =>
          /\ shakingSlots' = slotsToShake(currentSonnet, slots)
          /\ shakeStartTime' = now]_vars

\* C23: the offset query returns 0 and changes nothing when no shake is
\* running or slot i is not flagged; at 500 ms or more after the start it
\* returns 0 and clears the flagged set and the start time, after which every
\* query returns 0 and changes nothing; before 500 ms it leaves the flagged
\* set and the start time as they are.
C23_OffsetFor ==
    \A i \in SlotIdx :
        LET r == offsetFor(ShakeState, i, now)
        IN /\ (shakeStartTime = Null \/ i \notin shakingSlots) =>
                  r.offset = ZeroOffset /\ r.state = ShakeState
           /\ (shakeStartTime # Null /\ i \in shakingSlots
                  /\ now - shakeStartTime >= duration) =>
                  /\ r.offset = ZeroOffset
                  /\ r.state.shaking = {}
                  /\ r.state.start = Null
                  /\ \A j \in SlotIdx, t \in {now, now + TickMs, now + duration} :
                         offsetFor(r.state, j, t) = [state |-> r.state, offset |-> ZeroOffset]
           /\ (shakeStartTime # Null /\ now - shakeStartTime < duration) =>
                  /\ r.state.shaking = shakingSlots
                  /\ r.state.start = shakeStartTime

\* C23 in the program: a redraw leaves the timer as the query of a flagged
\* slot leaves it.
C23_RedrawQueries ==
    [][handleResize =>
          IF shakingSlots = {} THEN UNCHANGED shakeVars
          ELSE \A i \in shakingSlots : ShakeState' = offsetFor(ShakeState, i, now).state]_vars

\* a shake whose 500 ms are over and that no redraw has queried yet, in the
\* middle of a drag
C23_Witness ==
    /\ shakingSlots # {}
    /\ shakeStartTime # Null
    /\ now - shakeStartTime >= duration
    /\ isDragging

\* The values of the clock, and the start times from which the clock of the
\* model reaches the end of the shake.
MaxNow == 1 + MaxTicks * TickMs
Times == {1 + k * TickMs : k \in 0 .. MaxTicks}
StartTimes == {t \in Times : t + duration <= MaxNow}
TimerIdle ==
    /\ shakingSlots = {}
    /\ shakeStartTime = Null
    /\ shakeAnimationFrame = Null
    /\ pendingFrames = {}
\* a check that flags a slot
CheckFails == CheckRuns /\ slotsToShake(currentSonnet, slots) # {}

\* C24: while the clock goes on and frames are run, every shake comes to an
\* end (no flagged slot, no start time, no frame requested) unless a later
\* failing check restarts it, and the timer stays idle until a check fails.
C24_ShakeEnds ==
    /\ \A t0 \in StartTimes :
           (shakeStartTime = t0) ~> (TimerIdle \/ shakeStartTime > t0)
    /\ [][TimerIdle /\ ~CheckFails => TimerIdle']_vars

\* an idle timer after a failing check, with no pointer event since: the
\* frames have ended the shake
C24_Witness ==
    /\ TimerIdle
    /\ ev.op = "checkFailed"
    /\ ~isDragging
    /\ checkOrderCount = 1

\* no sonnet of the data has enough non-blank lines
Unavailable == validSonnets(sonnets) = {}

\* C25: when no sonnet is available, initGame (at load or by a press of New
\* Sonnet) leaves currentSonnet, the slots, the annotations, the counter and
\* hasCheckedAndPassed as they were.
C25_FailedNewPuzzleChangesNothing ==
    [][Unavailable /\ (Load \/ handlePointerDown(NewSonnetLoc))
          => UNCHANGED puzzleVars]_vars

\* the failed initGame has run
C25_Witness ==
    /\ pc = "run"
    /\ Unavailable
    /\ ev.op = "initGameFailed"
    /\ currentSonnet = NullSonnet
    /\ slots = EmptySlots

\* exactly NumSlots lines, none of them blank
WellFormed(sonnet) == Len(sonnet) = NumSlots /\ \A i \in 1 .. Len(sonnet) : sonnet[i] # Blank

C26_OnlyWellFormedPuzzles ==
    currentSonnet # NullSonnet => WellFormed(currentSonnet)

\* no line is in two slots of s
NoDuplicates(s) == \A i, j \in SlotIdx : i # j /\ s[i] # Null => s[i] # s[j]

\* C27: in every reachable state no line occupies more than one slot.
C27_NoDuplicateLines == NoDuplicates(slots)

\* C27 for initGame and for the drops of a session that carries the line of
\* its source slot: they leave no line in two slots.
C27_FreshDropsKeepLinesApart ==
    [][/\ ev'.op = "initGame" => NoDuplicates(slots')
       /\ \A loc \in Locs :
              handlePointerUp(loc) /\ NoDuplicates(slots)
                  /\ (isDragging => draggedLine = slots[draggedSlotIndex])
                  => NoDuplicates(slots')]_vars

\* C28: currentSonnet changes only in an initGame (at load or by a press of
\* New Sonnet that is not disabled) and is then a sequence of the data in the
\* order of the data, not the shuffled one; pick-up, hover, drop, check and
\* redraw leave it unchanged.
C28_CanonicalFixed ==
    [][currentSonnet' # currentSonnet =>
          /\ currentSonnet' # NullSonnet => currentSonnet' \in getRandomSonnet(sonnets)
          /\ \/ pc = "load"
             \/ /\ ~isButtonDisabled("newSonnet")
                /\ ev'.op = "initGame"
                /\ UNCHANGED <<sonnets, pc, now, dragVars>>]_vars

\* a New Sonnet that replaced the sequence: the line of the session, picked up
\* from the solved board of the old sequence, is not the line the new
\* sequence has at that index
C28_Witness ==
    /\ ev.op = "initGame"
    /\ currentSonnet = SonnetB
    /\ isDragging
    /\ draggedLine # Canonical(draggedSlotIndex)

\* C29: once a sonnet is loaded every slot is occupied in every reachable
\* state; no drop takes the branch that moves a line into an empty slot, and
\* the slots a check flags are occupied.
C29_SlotsStayFull ==
    currentSonnet # NullSonnet =>
        /\ EmptyIdx(slots) = {}
        /\ ev.op # "move"
        /\ slotsToShake(currentSonnet, slots) = wrongLines(currentSonnet, slots)
        /\ Checked /\ shakingSlots # {} => \A i \in shakingSlots : slots[i] # Null

\* the drop of a session that outlived a New Sonnet: it leaves a line twice
\* on the board and still no slot empty
C29_Witness ==
    /\ ev.op = "swap"
    /\ EmptyIdx(slots) = {}
    /\ ~NoDuplicates(slots)

\* C30: hasCheckedAndPassed holds only on a board where every slot holds the
\* canonical line of its index; so the New Sonnet button is disabled exactly
\* when hasCheckedAndPassed is false.
C30_PassImpliesComplete ==
    /\ hasCheckedAndPassed => isOrderCorrect(currentSonnet, slots)
    /\ hasCheckedAndPassed => \A i \in SlotIdx : slots[i] = Canonical(i)
    /\ isButtonDisabled("newSonnet") <=> ~hasCheckedAndPassed

\* after a passing check, a pick-up and a release outside the slots: the flag
\* stands, the board is complete and New Sonnet is enabled
C30_Witness ==
    /\ hasCheckedAndPassed
    /\ ev.op = "revert"
    /\ isOrderCorrect(currentSonnet, slots)
    /\ ~isButtonDisabled("newSonnet")

\* C31: while a drag session is active, draggedLine is the line that
\* slots[draggedSlotIndex] holds.
C31_SessionCarriesSourceLine ==
    isDragging => draggedLine = slots[draggedSlotIndex]

\* C31 up to the first New Sonnet: a check or another pick-up during the
\* session leaves draggedLine the line of its source slot.
C31_FreshUntilNewPuzzle ==
    [][(isDragging => draggedLine = slots[draggedSlotIndex]) /\ UNCHANGED slots
          => (isDragging' => draggedLine' = slots'[draggedSlotIndex'])]_vars

\* C32: right after a successful initGame no drag session is active.
C32_NoSessionAfterNewPuzzle ==
    ev.op = "initGame" => ~isDragging /\ draggedLine = Null /\ draggedSlotIndex = NullIdx

\* C32, second part: every drop writes into the slots a line it found in
\* the slots.
C32_DropsWriteBoardLines ==
    [][\A loc \in Locs : handlePointerUp(loc) =>
          \A i \in SlotIdx : \E j \in SlotIdx : slots'[i] = slots[j]
                                 /\ Occurrences(slots', slots'[i]) = Occurrences(slots, slots[j])]_vars

\* C33: every slot marked incorrect is marked checked and holds a line other
\* than the canonical line of its index, and every slot marked checked and
\* not incorrect holds the canonical line of its index.
C33_AnnotationsNeverStale ==
    /\ incorrectSlots \subseteq checkedSlots
    /\ \A i \in incorrectSlots : slots[i] # Null /\ slots[i] # Canonical(i)
    /\ \A i \in checkedSlots \ incorrectSlots : slots[i] = Canonical(i)

\* a swap after a check that marked slots correct and incorrect: the marks of
\* the two slots of the swap are gone, the mark of another slot stands
C33_Witness ==
    /\ ev.op = "swap"
    /\ checkOrderCount > 0
    /\ incorrectSlots # {}
    /\ Cardinality(checkedSlots) < NumSlots

\* C34: some slot is shaking iff shakeStartTime is set, and while a slot is
\* shaking a frame is requested: shakeAnimationFrame names a request the
\* browser has yet to run.
C34_TimerConsistent ==
    /\ shakingSlots # {} <=> shakeStartTime # Null
    /\ shakingSlots # {} => shakeAnimationFrame # Null /\ shakeAnimationFrame \in pendingFrames

\* a shake restarted by a second failing check, on the frame request of the
\* first
C34_Witness ==
    /\ shakingSlots # {}
    /\ shakeStartTime = now
    /\ now > 1
    /\ checkOrderCount = 2
    /\ ev.op = "checkFailed"
    /\ shakeAnimationFrame \in pendingFrames

====
